---- MODULE Spec2Model ----
(***************************************************************************)
(* Model of the image-to-PC-8801 encoding pipeline of DancingStar:         *)
(*   - SemiGraphicConverter (src/src/utils/error-handler.ts): RGBA image   *)
(*     to a grid of 2x4-dot semi-graphic blocks, by the direct-buffer path *)
(*     (convertImageToSemiGraphic) and by the Jimp path (convertImageFile) *)
(*   - Z80Exporter (src/unnamed/part_001): the colour attribute table.     *)
(* Numbers are JavaScript numbers; all values that occur are small         *)
(* non-negative integers, so Integers arithmetic is exact.                 *)
(***************************************************************************)
EXTENDS Integers, Sequences, FiniteSets, TLC

VARIABLES imageData, semiData, jimpData, rgb, nearestIndex, grid, attrLines,
          semiLines, codeIndex, attrCode,
          projectData, asmCode, exportResult, fsLog,
          files, fileCall, projectCall

vars == <<imageData, semiData, jimpData, rgb, nearestIndex, grid, attrLines,
          semiLines, codeIndex, attrCode,
          projectData, asmCode, exportResult, fsLog,
          files, fileCall, projectCall>>

\* The variables of convertImageFile and convertImageFromProject.
fileVars == <<files, fileCall, projectCall>>

\* The variables of exportProject.
exportVars == <<projectData, asmCode, exportResult, fsLog>>

\* The variables of the pattern table, of the attribute mapping and of
\* exportProject.
tableVars == <<semiLines, codeIndex, attrCode, exportVars, fileVars>>

(***************************************************************************)
(* Bounds of the model                                                     *)
(***************************************************************************)
\* largest pixel width of an input image
MaxW == 3
\* largest pixel height of an input image
MaxH == 5
\* largest number of pixels of an input image
MaxPixels == 8
\* largest width, height and number of blocks of a grid given to the exporter
MaxGridW == 4
MaxGridH == 2
MaxBlocks == 8

(***************************************************************************)
(* Inputs                                                                  *)
(***************************************************************************)
\* The RGBA pixels input images are made of: a translucent white pixel just
\* below the alpha threshold, a dark grey pixel just above it (its nearest
\* palette colour is black), an opaque red and an opaque light green.
PixelSamples ==
  { [r |-> 255, g |-> 255, b |-> 255, a |-> 127],
    [r |-> 50,  g |-> 50,  b |-> 50,  a |-> 128],
    [r |-> 255, g |-> 0,   b |-> 0,   a |-> 255],
    [r |-> 100, g |-> 200, b |-> 100, a |-> 255] }

\* The byte of channel c (0 = R, 1 = G, 2 = B, 3 = A) of a pixel.
Channel(p, c) == IF c = 0 THEN p.r ELSE IF c = 1 THEN p.g ELSE IF c = 2 THEN p.b ELSE p.a

\* An ImageData object: width, height and the row-major RGBA buffer, kept
\* as one RGBA record per pixel (position 0 .. width*height - 1).
MakeImageData(w, h, px) == [width |-> w, height |-> h, data |-> px]

\* imageData.data[i]: byte i of the buffer is channel i mod 4 of pixel
\* i div 4.
Data(img, i) == Channel(img.data[i \div 4], i % 4)

\* The pixel sizes of the images within the bounds.
ImageSizes == { s \in (1 .. MaxW) \X (1 .. MaxH) : s[1] * s[2] <= MaxPixels }

\* The pixel kinds one image is drawn from: a transparent pixel with a dark
\* opaque one and a colour, a transparent pixel with two colours, or three
\* opaque kinds.
PixelPalettes ==
  { { p \in PixelSamples : p.a = 127 \/ p.r = 50 \/ p.g = 0 },
    { p \in PixelSamples : p.a = 127 \/ p.a = 255 },
    { p \in PixelSamples : p.a > 127 } }

(***************************************************************************)
(* SemiGraphicConverter                                                    *)
(***************************************************************************)
DIGITAL_COLORS ==
  << [r |-> 0,   g |-> 0,   b |-> 0],
     [r |-> 0,   g |-> 0,   b |-> 255],
     [r |-> 255, g |-> 0,   b |-> 0],
     [r |-> 255, g |-> 0,   b |-> 255],
     [r |-> 0,   g |-> 255, b |-> 0],
     [r |-> 0,   g |-> 255, b |-> 255],
     [r |-> 255, g |-> 255, b |-> 0],
     [r |-> 255, g |-> 255, b |-> 255] >>

\* DIGITAL_COLORS[i] with the 0-based index of the code.
Palette(i) == DIGITAL_COLORS[i + 1]

\* A distance that leaves the blue channel out.
DistanceSqNoBlue(c, color) == (c.r - color.r) ^ 2 + (c.g - color.g) ^ 2

\* The argument of Math.sqrt in findNearestColor. Math.sqrt is strictly
\* increasing on the integers 0 .. 3*255^2, so comparing the squares is
\* comparing the distances.
DistanceSq(c, color) ==
  (c.r - color.r) ^ 2 + (c.g - color.g) ^ 2 + (c.b - color.b) ^ 2

\* The loop of findNearestColor from index i on; minDistance = -1 stands
\* for Infinity.
RECURSIVE NearestLoop(_, _, _, _)
NearestLoop(c, i, minDistance, nearest) ==
  IF i >= 8 THEN nearest
  ELSE LET distance == DistanceSq(c, Palette(i))
       IN IF minDistance = -1 \/ distance < minDistance
          THEN NearestLoop(c, i + 1, distance, i)
          ELSE NearestLoop(c, i + 1, minDistance, nearest)

\* The colours of the pixels of the input images.
SampleColors == { [r |-> p.r, g |-> p.g, b |-> p.b] : p \in PixelSamples }

\* The result of the loop for the colours of the input images, evaluated
\* once.
NearestOfSample == [c \in SampleColors |-> NearestLoop(c, 0, -1, 0)]

findNearestColor(c) ==
  IF c \in SampleColors THEN NearestOfSample[c] ELSE NearestLoop(c, 0, -1, 0)

\* A count that does not leave black out.
FrequencyWithBlack(colors, color) ==
  Cardinality({ i \in 1 .. Len(colors) : colors[i] = color })

\* frequency[color] after the first loop of getMostFrequentColor: the
\* number of entries equal to color, none for black (0 when the key is
\* absent).
Frequency(colors, color) ==
  Cardinality({ i \in 1 .. Len(colors) : colors[i] # 0 /\ colors[i] = color })

\* count >= maxCount
ExceedsOrEquals(count, maxCount) == count >= maxCount

\* count > maxCount
Exceeds(count, maxCount) == count > maxCount

\* The second loop of getMostFrequentColor: Object.entries lists the
\* integer keys of frequency in ascending order; a colour that is no key
\* has count 0 here and never exceeds maxCount.
RECURSIVE MostFrequentLoop(_, _, _, _)
MostFrequentLoop(colors, color, maxCount, mostFrequent) ==
  IF color > 7 THEN mostFrequent
  ELSE LET count == Frequency(colors, color)
       IN IF Exceeds(count, maxCount)
          THEN MostFrequentLoop(colors, color + 1, count, color)
          ELSE MostFrequentLoop(colors, color + 1, maxCount, mostFrequent)

getMostFrequentColor(colors) ==
  IF Len(colors) = 0 THEN 0 ELSE MostFrequentLoop(colors, 0, 0, 0)

\* pattern | (1 << bitIndex)
SetBit(pattern, bitIndex) ==
  IF (pattern \div (2 ^ bitIndex)) % 2 = 1 THEN pattern ELSE pattern + 2 ^ bitIndex

\* dy * 2 + dx, the bits in row-major order.
BitIndexRowMajor(dx, dy) == dy * 2 + dx

\* dx === 0 ? dy : (4 + dy)
BitIndex(dx, dy) == IF dx = 0 THEN dy ELSE 4 + dy

\* Math.floor(n / d), as calculateSemiGraphicSize rounds.
Floor(n, d) == n \div d

\* Math.ceil(n / d) for positive integers.
Ceil(n, d) == (n + d - 1) \div d

\* A bounds check on the buffer index instead of on the column.
InBoundsNoX(img, pixelX, pixelY) ==
  pixelY < img.height /\ pixelY * img.width + pixelX < img.width * img.height

\* pixelX < originalWidth && pixelY < originalHeight
InBounds(img, pixelX, pixelY) == pixelX < img.width /\ pixelY < img.height

\* A threshold one too low.
IsTransparentBelow127(a) == a < 127

\* a < 128 ("transparent pixels are treated as black")
IsTransparent(a) == a < 128

\* The body of the dy/dx loops of convertImageDataToSemiGraphic for block
\* (x, y), from step k on (dy = k div 2, dx = k mod 2); acc holds pattern
\* and blockColors.
RECURSIVE BlockLoop(_, _, _, _, _)
BlockLoop(img, x, y, k, acc) ==
  IF k >= 8 THEN acc
  ELSE
    LET dy == k \div 2
        dx == k % 2
        pixelX == x * 2 + dx
        pixelY == y * 4 + dy
        index == (pixelY * img.width + pixelX) * 4
    IN IF InBounds(img, pixelX, pixelY)
       THEN LET r == Data(img, index)
                g == Data(img, index + 1)
                b == Data(img, index + 2)
                a == Data(img, index + 3)
            IN IF IsTransparent(a)
               THEN BlockLoop(img, x, y, k + 1,
                              [acc EXCEPT !.blockColors = Append(@, 0)])
               ELSE LET colorIndex == findNearestColor([r |-> r, g |-> g, b |-> b])
                    IN BlockLoop(img, x, y, k + 1,
                         [pattern |-> IF colorIndex # 0
                                      THEN SetBit(acc.pattern, BitIndex(dx, dy))
                                      ELSE acc.pattern,
                          blockColors |-> Append(acc.blockColors, colorIndex)])
       ELSE BlockLoop(img, x, y, k + 1,
                      [acc EXCEPT !.blockColors = Append(@, 0)])

\* One block of the direct-buffer path.
DataBlock(img, x, y) ==
  LET acc == BlockLoop(img, x, y, 0, [pattern |-> 0, blockColors |-> << >>])
  IN [pattern |-> acc.pattern, colorCode |-> getMostFrequentColor(acc.blockColors)]

convertImageDataToSemiGraphic(img) ==
  LET adjustedWidth == Ceil(img.width, 2) * 2
      adjustedHeight == Ceil(img.height, 4) * 4
      semiWidth == adjustedWidth \div 2
      semiHeight == adjustedHeight \div 4
  IN [width |-> semiWidth, height |-> semiHeight,
      blocks |-> [y \in 1 .. semiHeight |->
                    [x \in 1 .. semiWidth |-> DataBlock(img, x - 1, y - 1)]]]

\* ToInt32 of image.getPixelColor(x, y) of Jimp. getPixelColor reads the
\* pixel's four bytes as one big-endian unsigned 32 bit number; its only
\* uses are operands of >> and &, which convert it to a signed 32 bit
\* number first (a red byte of 128 or more makes it negative).
getPixelColor(img, pixelX, pixelY) ==
  LET index == (pixelY * img.width + pixelX) * 4
      r == Data(img, index)
  IN (IF r >= 128 THEN r - 256 ELSE r) * 16777216 + Data(img, index + 1) * 65536
     + Data(img, index + 2) * 256 + Data(img, index + 3)

\* (color >> n) & 0xFF: the arithmetic shift is the floor of the division,
\* the mask the non-negative remainder.
ShiftMask(color, n) == (color \div (2 ^ n)) % 256

\* The dy/dx loops of generateSemiGraphicBlockFromJimp.
RECURSIVE JimpLoop(_, _, _, _, _)
JimpLoop(img, blockX, blockY, k, acc) ==
  IF k >= 8 THEN acc
  ELSE
    LET dy == k \div 2
        dx == k % 2
        pixelX == blockX * 2 + dx
        pixelY == blockY * 4 + dy
    IN IF pixelX >= img.width \/ pixelY >= img.height
       THEN JimpLoop(img, blockX, blockY, k + 1, acc)
       ELSE LET color == getPixelColor(img, pixelX, pixelY)
                r == ShiftMask(color, 24)
                g == ShiftMask(color, 16)
                b == ShiftMask(color, 8)
                alpha == ShiftMask(color, 0)
            IN IF alpha > 127
               THEN JimpLoop(img, blockX, blockY, k + 1,
                      [pattern |-> SetBit(acc.pattern, BitIndex(dx, dy)),
                       colors |-> Append(acc.colors,
                                         findNearestColor([r |-> r, g |-> g, b |-> b]))])
               ELSE JimpLoop(img, blockX, blockY, k + 1, acc)

generateSemiGraphicBlockFromJimp(blockX, blockY, img) ==
  LET acc == JimpLoop(img, blockX, blockY, 0, [pattern |-> 0, colors |-> << >>])
  IN [pattern |-> acc.pattern, colorCode |-> getMostFrequentColor(acc.colors)]

convertJimpToSemiGraphic(img) ==
  LET adjustedWidth == Ceil(img.width, 2) * 2
      adjustedHeight == Ceil(img.height, 4) * 4
      semiWidth == adjustedWidth \div 2
      semiHeight == adjustedHeight \div 4
  IN [width |-> semiWidth, height |-> semiHeight,
      blocks |-> [y \in 1 .. semiHeight |->
                    [x \in 1 .. semiWidth |->
                       generateSemiGraphicBlockFromJimp(x - 1, y - 1, img)]]]

(***************************************************************************)
(* Z80Exporter: the colour attribute table                                 *)
(***************************************************************************)
\* colorMap of getAttributeColorCode.
colorMap == << 24, 56, 88, 120, 152, 184, 216, 248 >>

\* The default is the black attribute 0x18.
getAttributeColorCodeDefaultBlack(colorCode) ==
  IF colorCode \in 0 .. 7 /\ colorMap[colorCode + 1] # 0
  THEN colorMap[colorCode + 1] ELSE 24

\* colorMap[colorCode] || 0xF8
getAttributeColorCode(colorCode) ==
  IF colorCode \in 0 .. 7 /\ colorMap[colorCode + 1] # 0
  THEN colorMap[colorCode + 1] ELSE 248

\* n.toString(16): the hexadecimal digits of n, most significant first.
RECURSIVE ToString16(_)
ToString16(n) == IF n < 16 THEN << n >> ELSE Append(ToString16(n \div 16), n % 16)

\* s.padStart(2, '0')
PadStart2(s) == IF Len(s) < 2 THEN << 0 >> \o s ELSE s

\* The text `${x}` of a number written in decimal.
Dec(n) == << "dec", n >>

\* The text `$${n.toString(16).padStart(2, '0').toUpperCase()}`: a dollar
\* sign and the digits.
Hex(n) == << "hex", PadStart2(ToString16(n)) >>

\* The text of a line '\tDB\t' + operands joined by ', ': its operands.
DB(operands) == [kind |-> "DB", operands |-> operands]

\* A line with the count 0 and no pair.
FallbackLineNoPair == DB(<< Dec(0) >>)

\* The literal line '\tDB\t1, 0, $F8'.
FallbackLine == DB(<< Dec(1), Dec(0), << "hex", << 15, 8 >> >> >>)

\* startIndex after the while loop that skips the leading white (0-based).
RECURSIVE SkipWhite(_, _)
SkipWhite(rowColors, startIndex) ==
  IF startIndex < Len(rowColors) /\ rowColors[startIndex + 1] = 7
  THEN SkipWhite(rowColors, startIndex + 1)
  ELSE startIndex

\* No trimming of the leading white.
StartIndexZero(rowColors) == 0

\* startIndex when the scan begins.
StartIndex(rowColors) == SkipWhite(rowColors, 0)

\* The trailing white trimmed as well: the index of the last block that is
\* not white, -1 when there is none.
RECURSIVE SkipWhiteBack(_, _)
SkipWhiteBack(rowColors, endIndex) ==
  IF endIndex >= 0 /\ rowColors[endIndex + 1] = 7
  THEN SkipWhiteBack(rowColors, endIndex - 1)
  ELSE endIndex

EndIndexTrimmed(rowColors) == SkipWhiteBack(rowColors, Len(rowColors) - 1)

\* endIndex = rowColors.length - 1
EndIndex(rowColors) == Len(rowColors) - 1

\* No block is skipped.
IsSkippedNever(colorCode) == FALSE

\* Black and white blocks are skipped.
IsSkippedBlackOrWhite(colorCode) == colorCode = 0 \/ colorCode = 7

\* colorCode === 0: the block is skipped by the scan.
IsSkipped(colorCode) == colorCode = 0

\* Every non-black block counts as a change.
IsChangeAlways(colorCode, currentColor) == TRUE

\* A white block counts as a change after any block.
IsChangeOrWhite(colorCode, currentColor) == colorCode # currentColor \/ colorCode = 7

\* colorCode !== currentColor
IsChange(colorCode, currentColor) == colorCode # currentColor

\* The scan loop of generateColorAttributeDB from position x on; st holds
\* currentColor, changeCount and attributePairs.
RECURSIVE ScanLoop(_, _, _, _)
ScanLoop(rowColors, x, endIndex, st) ==
  IF x > endIndex THEN st
  ELSE LET colorCode == rowColors[x + 1]
       IN IF IsSkipped(colorCode)
          THEN ScanLoop(rowColors, x + 1, endIndex, st)
          ELSE IF IsChange(colorCode, st.currentColor)
               THEN ScanLoop(rowColors, x + 1, endIndex,
                      [currentColor |-> colorCode,
                       changeCount |-> st.changeCount + 1,
                       attributePairs |->
                         st.attributePairs \o
                           << Dec(x), Hex(getAttributeColorCode(colorCode)) >>])
               ELSE ScanLoop(rowColors, x + 1, endIndex, st)

\* The count written as the number of strings in attributePairs.
CountedLineOfStrings(changeCount, attributePairs) ==
  DB(<< Dec(Len(attributePairs)) >> \o attributePairs)

\* The line `\tDB\t${changeCount}, ${pairStrings.join(', ')}`.
CountedLine(changeCount, attributePairs) ==
  DB(<< Dec(changeCount) >> \o attributePairs)

\* The line that the body of the row loop pushes for row y (1-based here).
RowLine(data, y) ==
  LET rowColors == [x \in 1 .. data.width |-> data.blocks[y][x].colorCode]
      startIndex == StartIndex(rowColors)
      endIndex == EndIndex(rowColors)
  IN IF startIndex > endIndex
     THEN FallbackLine
     ELSE LET st == ScanLoop(rowColors, startIndex, endIndex,
                             [currentColor |-> -1, changeCount |-> 0,
                              attributePairs |-> << >>])
          IN IF st.changeCount = 0
             THEN FallbackLine
             ELSE CountedLine(st.changeCount, st.attributePairs)

generateColorAttributeDB(data, labelPrefix) ==
  << [kind |-> "comment", width |-> data.width, height |-> data.height],
     [kind |-> "label", label |-> labelPrefix] >>
  \o [y \in 1 .. data.height |-> RowLine(data, y)]

(***************************************************************************)
(* Z80Exporter: the pattern table                                          *)
(***************************************************************************)
\* The text of the colour code in place of the pattern.
ColorByte(block) == Hex(block.colorCode)

\* `$${block.pattern.toString(16).padStart(2, '0').toUpperCase()}`
PatternByte(block) == Hex(block.pattern)

\* dataBytes of row y (1-based here): the texts of the row's blocks.
DataBytes(data, y) == [x \in 1 .. data.width |-> PatternByte(data.blocks[y][x])]

\* dataBytes.slice(i, i + 16)
Slice16(dataBytes, i) ==
  SubSeq(dataBytes, i + 1, IF i + 16 < Len(dataBytes) THEN i + 16 ELSE Len(dataBytes))

\* The loop that pushes one DB line per chunk of 16 bytes, from index i on.
RECURSIVE ChunkLoop(_, _, _)
ChunkLoop(dataBytes, i, lines) ==
  IF i < Len(dataBytes)
  THEN ChunkLoop(dataBytes, i + 16, Append(lines, DB(Slice16(dataBytes, i))))
  ELSE lines

\* The row loop of generateSemiGraphicDB from row y on (0-based).
RECURSIVE SemiRowLoop(_, _, _)
SemiRowLoop(data, y, lines) ==
  IF y < data.height
  THEN SemiRowLoop(data, y + 1, ChunkLoop(DataBytes(data, y + 1), 0, lines))
  ELSE lines

\* The bytes of all rows chunked as one sequence.
RECURSIVE AllBytes(_, _)
AllBytes(data, y) ==
  IF y < data.height THEN DataBytes(data, y + 1) \o AllBytes(data, y + 1) ELSE << >>

generateSemiGraphicDBAcrossRows(data, labelPrefix) ==
  ChunkLoop(AllBytes(data, 0), 0,
            << [kind |-> "comment", width |-> data.width, height |-> data.height],
               [kind |-> "label", label |-> labelPrefix] >>)

generateSemiGraphicDB(data, labelPrefix) ==
  SemiRowLoop(data, 0,
              << [kind |-> "comment", width |-> data.width, height |-> data.height],
                 [kind |-> "label", label |-> labelPrefix] >>)

\* "no result yet"
NoData == [width |-> 0, height |-> 0, blocks |-> << >>]
NoRGB == [r |-> 0, g |-> 0, b |-> 0]
NoImage == [width |-> 0, height |-> 0, data |-> << >>]

(***************************************************************************)
(* Z80Exporter: the listing                                                *)
(***************************************************************************)
\* A fixed line of the listing, a line with interpolated values, a label
\* line `${label}:`, and the lines '\tdw\t...' and '\tdb\t...'.
Text(t) == [kind |-> "text", text |-> t]
Note(t, args) == [kind |-> "note", text |-> t, args |-> args]
LabelLine(label) == [kind |-> "label", label |-> label]
DW(operand) == [kind |-> "dw", operand |-> operand]
DBytes(operands) == [kind |-> "db", operands |-> operands]

\* The characters of the decimal digits; a string is the sequence of its
\* characters.
DigitChars == << "0", "1", "2", "3", "4", "5", "6", "7", "8", "9" >>
IsDigit(ch) == \E d \in 1 .. 10 : DigitChars[d] = ch
DigitValue(ch) == (CHOOSE d \in 1 .. 10 : DigitChars[d] = ch) - 1

\* parseInt(s) of a string without sign or leading blanks: the value of the
\* leading digits, NaN when there is none.
RECURSIVE ParseDigits(_, _, _)
ParseDigits(s, k, acc) ==
  IF k <= Len(s) /\ IsDigit(s[k])
  THEN ParseDigits(s, k + 1, 10 * acc + DigitValue(s[k]))
  ELSE acc
parseInt(s) ==
  IF Len(s) > 0 /\ IsDigit(s[1])
  THEN [isNaN |-> FALSE, value |-> ParseDigits(s, 1, 0)]
  ELSE [isNaN |-> TRUE, value |-> 0]

\* String(n) of a number that is NaN or a natural number.
RECURSIVE DecimalChars(_)
DecimalChars(n) ==
  IF n < 10 THEN << DigitChars[n + 1] >>
  ELSE Append(DecimalChars(n \div 10), DigitChars[(n % 10) + 1])
String(n) == IF n.isNaN THEN << "N", "a", "N" >> ELSE DecimalChars(n.value)

\* s.padStart(3, '0')
RECURSIVE PadStart3(_)
PadStart3(s) == IF Len(s) < 3 THEN PadStart3(<< "0" >> \o s) ELSE s

\* The number without the padding.
ImageNumberUnpadded(id) == String(parseInt(id))

\* String(parseInt(id)).padStart(3, '0')
ImageNumber(id) == PadStart3(String(parseInt(id)))

\* `Image_${imageNumber}` and `Attr_${imageNumber}`
ImageLabel(imageNumber) == << "Image_" >> \o imageNumber
AttrLabel(imageNumber) == << "Attr_" >> \o imageNumber

\* A thrown Error with a message, and
\* error instanceof Error ? error.message : 'Unknown error'.
Error(message) == [isError |-> TRUE, message |-> message]
ErrorMessageUnknown(error) == "Unknown error"
ErrorMessage(error) == IF error.isError THEN error.message ELSE "Unknown error"

\* The image elements: none, an element whose getImageData returns a pixel
\* buffer, an HTMLImageElement (no getImageData), and an element whose
\* getImageData throws.
NoElement == [kind |-> "none", imageData |-> NoImage, message |-> ""]
CanvasElement(img) == [kind |-> "canvas", imageData |-> img, message |-> ""]
HtmlElement == [kind |-> "html", imageData |-> NoImage, message |-> ""]
BrokenElement(message) == [kind |-> "broken", imageData |-> NoImage, message |-> message]

\* The outcome of semiGraphicConverter.convertImageToSemiGraphic(imageElement):
\* the grid it returns or the error it throws.
ConvertOutcome(imageElement) ==
  IF imageElement.kind = "canvas"
  THEN [thrown |-> FALSE, semiData |-> convertImageDataToSemiGraphic(imageElement.imageData),
        error |-> Error("")]
  ELSE IF imageElement.kind = "broken"
  THEN [thrown |-> TRUE, semiData |-> NoData, error |-> Error(imageElement.message)]
  ELSE [thrown |-> TRUE, semiData |-> NoData, error |-> Error("browser unsupported")]

\* The lines of the try block for an image whose conversion returned.
ConvertedLines(image, semi) ==
  LET imageNumber == ImageNumber(image.id)
  IN generateSemiGraphicDB(semi, ImageLabel(imageNumber))
     \o << Text("") >>
     \o generateColorAttributeDB(semi, AttrLabel(imageNumber))
     \o << Text(""),
           Note("Image Size", << imageNumber, semi.width, semi.height >>),
           Note("Data Size", << semi.width * semi.height, semi.width * semi.height >>) >>

\* No line for an image whose conversion threw.
ConversionFailedNothing(i, error) == << >>

\* The line of the catch block.
ConversionFailedLines(i, error) ==
  << Note("Error converting image", << i, ErrorMessage(error) >>) >>

\* The lines of one iteration of the image loop, for image i (0-based).
ImageLines(image, i) ==
  << Text(""), Note("Image", << image.filename, image.width, image.height >>) >>
  \o (IF image.imageElement.kind # "none"
      THEN LET outcome == ConvertOutcome(image.imageElement)
           IN IF outcome.thrown
              THEN ConversionFailedLines(i, outcome.error)
              ELSE ConvertedLines(image, outcome.semiData)
      ELSE << Note("Image element not loaded for", << image.filename >>) >>)

RECURSIVE ImageLoop(_, _)
ImageLoop(images, i) ==
  IF i < Len(images) THEN ImageLines(images[i + 1], i) \o ImageLoop(images, i + 1) ELSE << >>

\* The frame lines with x written before y.
FrameLinesXY(frame, j) ==
  << Note("Frame", << j + 1, frame.imageId, frame.x, frame.y, frame.waitTime >>),
     DW(ImageLabel(ImageNumber(frame.imageId))),
     DBytes(<< frame.x, frame.y >>),
     DBytes(<< frame.waitTime >>) >>

\* The lines of frame j (0-based) of a sequence.
FrameLines(frame, j) ==
  << Note("Frame", << j + 1, frame.imageId, frame.x, frame.y, frame.waitTime >>),
     DW(ImageLabel(ImageNumber(frame.imageId))),
     DBytes(<< frame.y, frame.x >>),
     DBytes(<< frame.waitTime >>) >>

RECURSIVE FrameLoop(_, _)
FrameLoop(frames, j) ==
  IF j < Len(frames) THEN FrameLines(frames[j + 1], j) \o FrameLoop(frames, j + 1) ELSE << >>

\* The lines of one iteration of the sequence loop.
SequenceLines(sequence) ==
  << Text(""),
     Note("Sequence", << sequence.name >>),
     Note("Frames", << Len(sequence.frames), sequence.loop >>),
     LabelLine(<< "Sequence" >>) >>
  \o FrameLoop(sequence.frames, 0)
  \o << DW(<< "0" >>) >>

RECURSIVE SequenceLoop(_, _)
SequenceLoop(sequences, i) ==
  IF i < Len(sequences)
  THEN SequenceLines(sequences[i + 1]) \o SequenceLoop(sequences, i + 1)
  ELSE << >>

\* The image section without the comment for an empty list.
ImageSectionNoComment(project) == ImageLoop(project.images, 0)

\* The image section: the image loop, or the comment when
\* projectData.images is empty.
ImageSection(project) ==
  IF Len(project.images) > 0
  THEN ImageLoop(project.images, 0)
  ELSE << Text("; No images in project") >>

\* The sequence section: the sequence loop, or the comment when
\* projectData.sequences is empty.
SequenceSection(project) ==
  IF Len(project.sequences) > 0
  THEN SequenceLoop(project.sequences, 0)
  ELSE << Text("; No sequences in project") >>

\* generateZ80Code(projectData) when new Date().toISOString() gives now:
\* the lines that are joined by '\n'.
generateZ80Code(project, now) ==
  << Text(";"),
     Text("; Z80 Dancing Editor Generated Assembly Code"),
     Note("Project", << project.name >>),
     Note("Generated", << now >>),
     Note("Canvas Size", << project.settings.canvasWidth, project.settings.canvasHeight >>),
     Note("Images", << Len(project.images) >>),
     Note("Sequences", << Len(project.sequences) >>),
     Text(";"),
     Text(""),
     Text("; === Image Data Section ==="),
     Text(""),
     LabelLine(<< "Character" >>),
     Text(".wByte       equ 32 / 2"),
     Text(".hByte       equ 68 / 4"),
     Text(".attrCount   equ 10"),
     Text("") >>
  \o ImageSection(project)
  \o << Text(""), Text("; === Animation Sequences ===") >>
  \o SequenceSection(project)
  \o << Text(""), Text("; === End of Generated Code ===") >>

\* The result of the catch block of exportProject.
FailureResult(error) == [success |-> FALSE, error |-> ErrorMessage(error)]

\* The result of exportProject when nothing was thrown.
SuccessResult(outputPath, asm, size) ==
  [success |-> TRUE, outputPath |-> outputPath, linesGenerated |-> Len(asm),
   sizeBytes |-> size]

(***************************************************************************)
(* SemiGraphicConverter: conversion of image files                         *)
(***************************************************************************)
\* The content of a path of the disk: no file, a file that is no image, or
\* the file of an image with the given bitmap.
Missing == [kind |-> "missing", bitmap |-> NoImage]
Corrupt == [kind |-> "corrupt", bitmap |-> NoImage]
ImageFile(bitmap) == [kind |-> "image", bitmap |-> bitmap]

\* The content of a path; a path the disk does not know has no file.
ContentOf(disk, path) == IF path \in DOMAIN disk THEN disk[path] ELSE Missing

\* The outcome of Jimp.read(path): the image, or the error thrown.
JimpRead(disk, path) ==
  LET content == ContentOf(disk, path)
  IN IF content.kind = "image"
     THEN [thrown |-> FALSE, bitmap |-> content.bitmap, error |-> Error("")]
     ELSE IF content.kind = "corrupt"
     THEN [thrown |-> TRUE, bitmap |-> NoImage, error |-> Error("Could not find MIME for Buffer")]
     ELSE [thrown |-> TRUE, bitmap |-> NoImage, error |-> Error("ENOENT: no such file or directory")]

\* null
Null == [isNull |-> TRUE]

\* The error leaves the method.
Thrown(error) == [thrown |-> TRUE, error |-> error]

\* A catch block that throws the error again.
CatchRethrow(error) == Thrown(error)

\* The catch blocks: the error is logged and null is returned.
CatchReturn(error) == Null

\* The result of convertImageFile(imagePath).
ConvertImageFileResult(disk, imagePath) ==
  LET read == JimpRead(disk, imagePath)
  IN IF read.thrown THEN CatchReturn(read.error) ELSE convertJimpToSemiGraphic(read.bitmap)

\* projectData.images.find(img => img.id === imageId): the index of the
\* first image with the id, 0 when there is none.
FindImage(images, imageId) ==
  IF \E i \in 1 .. Len(images) : images[i].id = imageId
  THEN CHOOSE i \in 1 .. Len(images) :
         images[i].id = imageId /\ \A j \in 1 .. i - 1 : images[j].id # imageId
  ELSE 0

\* The result of convertImageFromProject(projectData, imageId).
ConvertImageFromProjectResult(disk, project, imageId) ==
  LET found == FindImage(project.images, imageId)
  IN IF found = 0
     THEN Null
     ELSE LET read == JimpRead(disk, project.images[found].filename)
          IN IF read.thrown
             THEN CatchReturn(read.error)
             ELSE convertJimpToSemiGraphic(read.bitmap)

(***************************************************************************)
(* State machine of the converter                                          *)
(***************************************************************************)
\* No file is on the disk and neither convertImageFile nor
\* convertImageFromProject has been called with a path or an id.
NotCalled == [called |-> FALSE]
FilesIdle == files = << >> /\ fileCall = NotCalled /\ projectCall = NotCalled

\* exportProject has not been called: no project, no listing, no result,
\* no call of fs.
NoProject == [name |-> "", images |-> << >>, sequences |-> << >>]
NoResult == [success |-> FALSE, error |-> "not called"]
ExportIdle ==
  /\ projectData = NoProject
  /\ asmCode = << >>
  /\ exportResult = NoResult
  /\ fsLog = << >>

\* No pattern table generated, no colour code mapped and no export made yet.
TablesIdle ==
  semiLines = << >> /\ codeIndex = 0 /\ attrCode = -1 /\ ExportIdle /\ FilesIdle


Init ==
  /\ \E s \in ImageSizes :
       \E palette \in PixelPalettes :
         \E px \in [0 .. (s[1] * s[2] - 1) -> palette] :
           imageData = MakeImageData(s[1], s[2], px)
  /\ semiData = NoData
  /\ jimpData = NoData
  /\ rgb = NoRGB
  /\ nearestIndex = -1
  /\ grid = NoData
  /\ attrLines = << >>
  /\ TablesIdle

\* convertImageToSemiGraphic(imageElement) with imageElement.getImageData()
\* returning imageData.
convertImageToSemiGraphic ==
  /\ semiData = NoData
  /\ semiData' = convertImageDataToSemiGraphic(imageData)
  /\ UNCHANGED <<imageData, jimpData, rgb, nearestIndex, grid, attrLines, tableVars>>

\* convertImageFile(imagePath) where Jimp decodes the file to the bitmap
\* imageData.
convertImageFile ==
  /\ jimpData = NoData
  /\ jimpData' = convertJimpToSemiGraphic(imageData)
  /\ UNCHANGED <<imageData, semiData, rgb, nearestIndex, grid, attrLines, tableVars>>

Next == convertImageToSemiGraphic \/ convertImageFile

Spec == Init /\ [][Next]_vars

(***************************************************************************)
(* State machine of the palette matching on its own                        *)
(***************************************************************************)
\* The channel values the colours given to findNearestColor are made of.
ChannelSamples == { 0, 50, 100, 127, 128, 150, 200, 255 }

InitColor ==
  /\ imageData = NoImage
  /\ semiData = NoData
  /\ jimpData = NoData
  /\ rgb \in [r : ChannelSamples, g : ChannelSamples, b : ChannelSamples]
  /\ nearestIndex = -1
  /\ grid = NoData
  /\ attrLines = << >>
  /\ TablesIdle

\* findNearestColor(rgb)
CallFindNearestColor ==
  /\ nearestIndex = -1
  /\ nearestIndex' = findNearestColor(rgb)
  /\ UNCHANGED <<imageData, semiData, jimpData, rgb, grid, attrLines, tableVars>>

NextColor == CallFindNearestColor

SpecColor == InitColor /\ [][NextColor]_vars

(***************************************************************************)
(* State machine of the colour attribute table                             *)
(***************************************************************************)
\* The colour codes of the grids given to the exporter: black, blue, red
\* and white.
AttrColors == { 0, 1, 2, 7 }

\* A grid with the colour codes cc[y][x]; the patterns are 0 as in the
\* exporter's tests.
MakeGrid(w, h, cc) ==
  [width |-> w, height |-> h,
   blocks |-> [y \in 1 .. h |-> [x \in 1 .. w |->
                 [pattern |-> 0, colorCode |-> cc[y][x]]]]]

GridSizes == { s \in (1 .. MaxGridW) \X (1 .. MaxGridH) : s[1] * s[2] <= MaxBlocks }

\* The rows of the exporter's tests: BWWRRBWBWBWW and white, red, blue,
\* white, white.
ExampleRow == << 1, 7, 7, 2, 2, 1, 7, 1, 7, 1, 7, 7 >>
TrimRow == << 7, 2, 1, 7, 7 >>

InitAttr ==
  /\ imageData = NoImage
  /\ semiData = NoData
  /\ jimpData = NoData
  /\ rgb = NoRGB
  /\ nearestIndex = -1
  /\ \/ \E s \in GridSizes :
          \E cc \in [1 .. s[2] -> [1 .. s[1] -> AttrColors]] :
            grid = MakeGrid(s[1], s[2], cc)
     \/ \E row \in { ExampleRow, TrimRow } : grid = MakeGrid(Len(row), 1, << row >>)
  /\ attrLines = << >>
  /\ TablesIdle

\* generateColorAttributeDB(grid, 'COLOR_ATTR')
CallGenerateColorAttributeDB ==
  /\ attrLines = << >>
  /\ attrLines' = generateColorAttributeDB(grid, "COLOR_ATTR")
  /\ UNCHANGED <<imageData, semiData, jimpData, rgb, nearestIndex, grid, tableVars>>

NextAttr == CallGenerateColorAttributeDB

SpecAttr == InitAttr /\ [][NextAttr]_vars

(***************************************************************************)
(* State machine of the pattern table                                      *)
(***************************************************************************)
\* The greatest width and height of the grids given to generateSemiGraphicDB.
MaxSemiW == 33
MaxSemiH == 2

\* The patterns of a grid: block (x, y) has pattern base + dx*x + dy*y
\* modulo 256; dx = 1 from base 0 gives pattern i for block i.
PatternSeeds == [base : { 0, 9, 255 }, dx : { 0, 1, 17 }, dy : { 0, 64 }]

\* A grid of width w and height h with the patterns of a seed; the colour
\* code is 2.
MakePatternGrid(w, h, seed) ==
  [width |-> w, height |-> h,
   blocks |-> [y \in 1 .. h |-> [x \in 1 .. w |->
                 [pattern |-> (seed.base + seed.dx * (x - 1) + seed.dy * (y - 1)) % 256,
                  colorCode |-> 2]]]]

InitSemi ==
  /\ imageData = NoImage
  /\ semiData = NoData
  /\ jimpData = NoData
  /\ rgb = NoRGB
  /\ nearestIndex = -1
  /\ \E w \in 1 .. MaxSemiW : \E h \in 1 .. MaxSemiH : \E seed \in PatternSeeds :
       grid = MakePatternGrid(w, h, seed)
  /\ attrLines = << >>
  /\ TablesIdle

\* generateSemiGraphicDB(grid, 'SEMI_DATA')
CallGenerateSemiGraphicDB ==
  /\ semiLines = << >>
  /\ semiLines' = generateSemiGraphicDB(grid, "SEMI_DATA")
  /\ UNCHANGED <<imageData, semiData, jimpData, rgb, nearestIndex, grid, attrLines,
                 codeIndex, attrCode, exportVars, fileVars>>

NextSemi == CallGenerateSemiGraphicDB

SpecSemi == InitSemi /\ [][NextSemi]_vars

(***************************************************************************)
(* State machine of the attribute mapping                                  *)
(***************************************************************************)
\* The colour codes given to getAttributeColorCode are -MaxCode .. MaxCode.
MaxCode == 64

InitCode ==
  /\ imageData = NoImage
  /\ semiData = NoData
  /\ jimpData = NoData
  /\ rgb = NoRGB
  /\ nearestIndex = -1
  /\ grid = NoData
  /\ attrLines = << >>
  /\ semiLines = << >>
  /\ codeIndex \in -MaxCode .. MaxCode
  /\ attrCode = -1
  /\ ExportIdle
  /\ FilesIdle

\* getAttributeColorCode(codeIndex)
CallGetAttributeColorCode ==
  /\ attrCode = -1
  /\ attrCode' = getAttributeColorCode(codeIndex)
  /\ UNCHANGED <<imageData, semiData, jimpData, rgb, nearestIndex, grid, attrLines,
                 semiLines, codeIndex, exportVars, fileVars>>

NextCode == CallGetAttributeColorCode

SpecCode == InitCode /\ [][NextCode]_vars

(***************************************************************************)
(* State machine of exportProject                                          *)
(***************************************************************************)
\* The greatest number of images, of sequences and of frames in a project.
MaxImages == 2
MaxSequences == 2
MaxFrames == 2

\* The pixel buffer of the exporter's tests (rows of white, red, green and
\* blue, 2x4) and a 3x2 buffer with a transparent and a dark pixel.
Opaque255(r, g, b) == [r |-> r, g |-> g, b |-> b, a |-> 255]
MockImageData ==
  MakeImageData(2, 4,
    [i \in 0 .. 7 |->
       IF i < 2 THEN Opaque255(255, 255, 255)
       ELSE IF i < 4 THEN Opaque255(255, 0, 0)
       ELSE IF i < 6 THEN Opaque255(0, 255, 0)
       ELSE Opaque255(0, 0, 255)])
CroppedImageData ==
  MakeImageData(3, 2,
    [i \in 0 .. 5 |->
       IF i = 1 THEN [r |-> 255, g |-> 255, b |-> 255, a |-> 127]
       ELSE IF i = 2 THEN [r |-> 50, g |-> 50, b |-> 50, a |-> 128]
       ELSE IF i < 2 THEN Opaque255(255, 0, 0)
       ELSE Opaque255(100, 200, 100)])

\* The image elements of the images of a project.
ElementSamples ==
  { NoElement, HtmlElement, BrokenElement("decode failed"),
    CanvasElement(MockImageData), CanvasElement(CroppedImageData) }

\* The id of the i-th image of a project: '001', '2', '003', ...
ImageIdOf(i) ==
  IF i % 2 = 1 THEN << "0", "0", DigitChars[i + 1] >> ELSE << DigitChars[i + 1] >>

\* The i-th image of a project, with the given image element.
MakeImage(i, element) ==
  [id |-> ImageIdOf(i), filename |-> << "image", i, ".png" >>,
   width |-> 32, height |-> 32, imageElement |-> element]

\* The frames of the sequences.
FrameSamples ==
  { [imageId |-> ImageIdOf(1), x |-> 100, y |-> 50, waitTime |-> 10],
    [imageId |-> ImageIdOf(2), x |-> 0, y |-> 7, waitTime |-> 255] }

\* The frame lists of one sequence and the sequence lists of a project: at
\* most MaxSequences sequences with at most MaxFrames frames in all.
FrameLists == UNION { [1 .. n -> FrameSamples] : n \in 0 .. MaxFrames }
RECURSIVE TotalFrames(_, _)
TotalFrames(frameLists, k) ==
  IF k > Len(frameLists) THEN 0 ELSE Len(frameLists[k]) + TotalFrames(frameLists, k + 1)
SequenceShapes ==
  { fl \in UNION { [1 .. n -> FrameLists] : n \in 0 .. MaxSequences } :
      TotalFrames(fl, 1) <= MaxFrames }

MakeSequence(frames) == [name |-> "Test Animation", loop |-> TRUE, frames |-> frames]

MakeProject(elements, frameLists) ==
  [name |-> "Test Project",
   images |-> [i \in 1 .. Len(elements) |-> MakeImage(i, elements[i])],
   sequences |-> [i \in 1 .. Len(frameLists) |-> MakeSequence(frameLists[i])],
   settings |-> [canvasWidth |-> 256, canvasHeight |-> 192]]

\* options.outputPath, the value of new Date().toISOString(), the size that
\* fs.statSync reports and the errors that fs.writeFileSync and fs.statSync
\* throw.
OutputPath == "test-output.asm"
Now == "2024-01-01T00:00:00.000Z"
StatSize == 1024
WriteErrors == { Error("Permission denied"), Error("ENOSPC: no space left on device") }
StatErrors == { Error("ENOENT: no such file or directory") }

InitZ80 ==
  /\ imageData = NoImage
  /\ semiData = NoData
  /\ jimpData = NoData
  /\ rgb = NoRGB
  /\ nearestIndex = -1
  /\ grid = NoData
  /\ attrLines = << >>
  /\ semiLines = << >>
  /\ codeIndex = 0
  /\ attrCode = -1
  /\ \E n \in 0 .. MaxImages : \E elements \in [1 .. n -> ElementSamples] :
       \E frameLists \in SequenceShapes :
         projectData = MakeProject(elements, frameLists)
  /\ asmCode = << >>
  /\ exportResult = NoResult
  /\ fsLog = << >>
  /\ FilesIdle

\* A call of fs that returned and a call of fs that threw; fsLog is the
\* sequence of the calls made.
Returned(call) == [call |-> call, thrown |-> FALSE, error |-> Error("")]
Threw(call, error) == [call |-> call, thrown |-> TRUE, error |-> error]

\* exportProject(projectData, { outputPath }): the listing is generated,
\* fs.writeFileSync is called and either throws or is followed by
\* fs.statSync, which throws or reports the size.
exportProject ==
  /\ exportResult = NoResult
  /\ asmCode' = generateZ80Code(projectData, Now)
  /\ \/ \E error \in WriteErrors :
          /\ fsLog' = Append(fsLog, Threw("writeFileSync", error))
          /\ exportResult' = FailureResult(error)
     \/ \E error \in StatErrors :
          /\ fsLog' = fsLog \o << Returned("writeFileSync"), Threw("statSync", error) >>
          /\ exportResult' = FailureResult(error)
     \/ /\ fsLog' = fsLog \o << Returned("writeFileSync"), Returned("statSync") >>
        /\ exportResult' = SuccessResult(OutputPath, asmCode', StatSize)
  /\ UNCHANGED <<imageData, semiData, jimpData, rgb, nearestIndex, grid, attrLines,
                 semiLines, codeIndex, attrCode, projectData, fileVars>>

NextZ80 == exportProject

SpecZ80 == InitZ80 /\ [][NextZ80]_vars

(***************************************************************************)
(* State machine of the conversion of image files                          *)
(***************************************************************************)
\* The paths of the files of the first MaxFiles images of a project, and
\* a path no project names.
MaxFiles == 2
FilePaths == { MakeImage(i, NoElement).filename : i \in 1 .. MaxFiles }
OtherPath == << "other", 0, ".png" >>

\* What a path of the disk may hold.
FileContents == { Missing, Corrupt, ImageFile(MockImageData), ImageFile(CroppedImageData) }

\* A call with its argument and the value it returned.
Called(argument, result) == [called |-> TRUE, argument |-> argument, result |-> result]

InitFile ==
  /\ imageData = NoImage
  /\ semiData = NoData
  /\ jimpData = NoData
  /\ rgb = NoRGB
  /\ nearestIndex = -1
  /\ grid = NoData
  /\ attrLines = << >>
  /\ semiLines = << >>
  /\ codeIndex = 0
  /\ attrCode = -1
  /\ \E n \in 0 .. MaxFiles : \E elements \in [1 .. n -> { NoElement }] :
       projectData = MakeProject(elements, << >>)
  /\ asmCode = << >>
  /\ exportResult = NoResult
  /\ fsLog = << >>
  /\ files \in [FilePaths -> FileContents]
  /\ fileCall = NotCalled
  /\ projectCall = NotCalled

\* convertImageFile(imagePath)
convertImageFileAtPath ==
  /\ fileCall = NotCalled
  /\ \E imagePath \in FilePaths \cup { OtherPath } :
       fileCall' = Called(imagePath, ConvertImageFileResult(files, imagePath))
  /\ UNCHANGED <<imageData, semiData, jimpData, rgb, nearestIndex, grid, attrLines,
                 semiLines, codeIndex, attrCode, exportVars, files, projectCall>>

\* convertImageFromProject(projectData, imageId)
convertImageFromProject ==
  /\ projectCall = NotCalled
  /\ \E imageId \in { ImageIdOf(i) : i \in 1 .. MaxFiles + 1 } :
       projectCall' =
         Called(imageId, ConvertImageFromProjectResult(files, projectData, imageId))
  /\ UNCHANGED <<imageData, semiData, jimpData, rgb, nearestIndex, grid, attrLines,
                 semiLines, codeIndex, attrCode, exportVars, files, fileCall>>

NextFile == convertImageFileAtPath \/ convertImageFromProject

SpecFile == InitFile /\ [][NextFile]_vars

(***************************************************************************)
(* Properties of the converter                                             *)
(***************************************************************************)
\* The eight dots (dx, dy) of a block.
Dots == (0 .. 1) \X (0 .. 3)

\* The pixel of the image at column px, row py.
PixelAt(img, px, py) == img.data[py * img.width + px]

\* Dot d of block (bx, by) has a source pixel inside the image.
Present(img, bx, by, d) ==
  bx * 2 + d[1] < img.width /\ by * 4 + d[2] < img.height

\* Dot d of block (bx, by) has a source pixel and its alpha exceeds 127.
Opaque(img, bx, by, d) ==
  /\ Present(img, bx, by, d)
  /\ PixelAt(img, bx * 2 + d[1], by * 4 + d[2]).a > 127

\* The hardware's bit of a dot: the left column is the low nibble, the
\* right column the high nibble, top to bottom.
DotBit(d) == IF d[1] = 0 THEN d[2] ELSE 4 + d[2]

\* Bit n of a pattern.
BitOf(pattern, n) == (pattern \div (2 ^ n)) % 2

\* The pattern with exactly the bits of the dots of S.
RECURSIVE PatternOf(_)
PatternOf(S) ==
  IF S = {} THEN 0
  ELSE LET d == CHOOSE e \in S : TRUE IN 2 ^ DotBit(d) + PatternOf(S \ {d})

\* The squared Euclidean distance of two colours.
EuclidSq(c1, c2) ==
  (c1.r - c2.r) * (c1.r - c2.r) + (c1.g - c2.g) * (c1.g - c2.g)
  + (c1.b - c2.b) * (c1.b - c2.b)

\* The palette index nearest to each colour of the input images.
ClosestOfSample ==
  [c \in SampleColors |->
     CHOOSE i \in 0 .. 7 :
       \A j \in 0 .. 7 :
         \/ EuclidSq(c, Palette(i)) < EuclidSq(c, Palette(j))
         \/ EuclidSq(c, Palette(i)) = EuclidSq(c, Palette(j)) /\ i <= j]

\* The palette index the pixel of a present dot votes for.
VoteOf(img, bx, by, d) ==
  LET p == PixelAt(img, bx * 2 + d[1], by * 4 + d[2])
  IN ClosestOfSample[[r |-> p.r, g |-> p.g, b |-> p.b]]

\* The vote of dot d of block (bx, by): the palette index of its pixel when
\* the pixel is set, -1 (no vote) otherwise.
DotVote(img, bx, by, d) ==
  IF Opaque(img, bx, by, d) THEN VoteOf(img, bx, by, d) ELSE -1

\* The votes of the eight dots of block (bx, by).
DotVotes(img, bx, by) ==
  << DotVote(img, bx, by, << 0, 0 >>), DotVote(img, bx, by, << 1, 0 >>),
     DotVote(img, bx, by, << 0, 1 >>), DotVote(img, bx, by, << 1, 1 >>),
     DotVote(img, bx, by, << 0, 2 >>), DotVote(img, bx, by, << 1, 2 >>),
     DotVote(img, bx, by, << 0, 3 >>), DotVote(img, bx, by, << 1, 3 >>) >>

\* The number of votes for colour c among the votes dv.
CountOf(dv, c) == Cardinality({ i \in 1 .. 8 : dv[i] = c })

\* The votes of block (bx, by): entry c + 1 is the number of its set pixels
\* whose nearest palette colour is c.
Votes(img, bx, by) ==
  LET dv == DotVotes(img, bx, by)
  IN << CountOf(dv, 0), CountOf(dv, 1), CountOf(dv, 2), CountOf(dv, 3),
        CountOf(dv, 4), CountOf(dv, 5), CountOf(dv, 6), CountOf(dv, 7) >>

\* The number of set pixels of block (bx, by) whose vote is colour c.
VoteCount(img, bx, by, c) == Votes(img, bx, by)[c + 1]

\* c is the colour a majority vote over the set pixels may yield: a
\* non-black colour no other non-black colour has more votes than, or
\* black when no set pixel votes for a non-black colour.
IsMajority(img, bx, by, c) ==
  LET votes == Votes(img, bx, by)
  IN IF \A k \in 1 .. 7 : votes[k + 1] = 0
     THEN c = 0
     ELSE c \in 1 .. 7 /\ \A k \in 1 .. 7 : votes[k + 1] <= votes[c + 1]

\* The block positions of a grid and the block at a position (0-based).
BlocksOf(data) == (0 .. data.width - 1) \X (0 .. data.height - 1)
BlockAt(data, bx, by) == data.blocks[by + 1][bx + 1]

\* convertImageToSemiGraphic has returned.
Converted == semiData # NoData

\* C1: in every block of the grid of convertImageToSemiGraphic the set dot
\* (dx, dy) is bit dy for dx = 0 and bit 4 + dy for dx = 1: the pattern is
\* the OR of these bits over the block's set (alpha > 127) pixels, 2^dy or
\* 2^(4+dy) for a single set dot.
C1_BitLayout ==
  Converted =>
    \A bl \in BlocksOf(semiData) :
      BlockAt(semiData, bl[1], bl[2]).pattern
        = PatternOf({ d \in Dots : Opaque(imageData, bl[1], bl[2], d) })

\* The smallest q with q * d >= n.
CeilOf(n, d) == CHOOSE q \in 0 .. n : q * d >= n /\ (q - 1) * d < n

\* C2: the grid of a W x H image has width ceil(W/2) and height ceil(H/4),
\* and its blocks array has height rows of width blocks each; a 2x4 image
\* gives a 1x1 grid.
C2_GridShape ==
  Converted =>
    /\ semiData.width = CeilOf(imageData.width, 2)
    /\ semiData.height = CeilOf(imageData.height, 4)
    /\ Len(semiData.blocks) = semiData.height
    /\ \A y \in 1 .. Len(semiData.blocks) : Len(semiData.blocks[y]) = semiData.width
    /\ (imageData.width = 2 /\ imageData.height = 4
          => semiData.width = 1 /\ semiData.height = 1)

\* A 3x2 image has been converted to its grid of 2x1 blocks.
C2_Witness ==
  /\ Converted
  /\ imageData.width = 3 /\ imageData.height = 2
  /\ semiData.width = 2 /\ semiData.height = 1

C4_BlackSetsBit ==
  Converted =>
    \A bl \in BlocksOf(semiData) :
      /\ \A d \in Dots :
           Opaque(imageData, bl[1], bl[2], d)
             => BitOf(BlockAt(semiData, bl[1], bl[2]).pattern, DotBit(d)) = 1
      /\ ((\A d \in Dots : /\ Opaque(imageData, bl[1], bl[2], d)
                           /\ VoteOf(imageData, bl[1], bl[2], d) = 0)
            => BlockAt(semiData, bl[1], bl[2]) = [pattern |-> 255, colorCode |-> 0])

\* C5: the Jimp path and the direct-buffer path give the same grid for the
\* same width, height and pixels.
C5_PathsAgree ==
  Converted /\ jimpData # NoData => semiData = jimpData

\* C6: the colour code of a block is the non-black palette index with the
\* most votes among the block's set pixels, black votes not counted, and 0
\* when there is no non-black vote; 4 red, 2 green and 2 unset give red.
C6_MajorityColor ==
  Converted =>
    \A bl \in BlocksOf(semiData) :
      LET votes == Votes(imageData, bl[1], bl[2])
          colorCode == BlockAt(semiData, bl[1], bl[2]).colorCode
      IN /\ IF \A k \in 1 .. 7 : votes[k + 1] = 0
            THEN colorCode = 0
            ELSE /\ colorCode \in 1 .. 7
                 /\ \A k \in 1 .. 7 : votes[k + 1] <= votes[colorCode + 1]
         /\ ((votes[3] = 4 /\ votes[5] = 2 /\ votes[1] = 0) => colorCode = 2)

\* A block of 4 red, 2 green and 2 unset pixels has been given red.
C6_Witness ==
  /\ Converted
  /\ imageData.width = 2 /\ imageData.height = 4
  /\ VoteCount(imageData, 0, 0, 2) = 4
  /\ VoteCount(imageData, 0, 0, 4) = 2
  /\ VoteCount(imageData, 0, 0, 0) = 0
  /\ BlockAt(semiData, 0, 0).colorCode = 2

\* The votes, in scan order from step k on, that the direct-buffer path
\* records for the dots of block (bx, by) that have a source pixel.
RECURSIVE InBoundsVotes(_, _, _, _)
InBoundsVotes(img, bx, by, k) ==
  IF k >= 8 THEN << >>
  ELSE LET d == << k % 2, k \div 2 >>
       IN (IF Present(img, bx, by, d)
           THEN << IF Opaque(img, bx, by, d) THEN VoteOf(img, bx, by, d) ELSE 0 >>
           ELSE << >>)
          \o InBoundsVotes(img, bx, by, k + 1)

\* Block (bx, by) has a dot without a source pixel.
Cropped(img, bx, by) == \E d \in Dots : ~Present(img, bx, by, d)

\* C8: a dot whose source pixel lies outside the image contributes no
\* pattern bit and no colour vote: its bit is 0 and the colour code is the
\* one the in-bounds pixels of the block alone give.
C8_OutOfBounds ==
  Converted =>
    \A bl \in BlocksOf(semiData) :
      Cropped(imageData, bl[1], bl[2]) =>
        LET block == BlockAt(semiData, bl[1], bl[2])
        IN /\ \A d \in Dots :
                ~Present(imageData, bl[1], bl[2], d)
                  => BitOf(block.pattern, DotBit(d)) = 0
           /\ block.colorCode
                = getMostFrequentColor(InBoundsVotes(imageData, bl[1], bl[2], 0))
           /\ IsMajority(imageData, bl[1], bl[2], block.colorCode)

\* An image of odd width 3 has been converted: the right column of its
\* second block has no source pixel, the left one set coloured pixels.
C8_Witness ==
  /\ Converted
  /\ imageData.width = 3 /\ imageData.height = 2
  /\ Cropped(imageData, 1, 0)
  /\ BlockAt(semiData, 1, 0).pattern = 3
  /\ BlockAt(semiData, 1, 0).colorCode # 0

(***************************************************************************)
(* Properties of the palette matching                                      *)
(***************************************************************************)
\* C7: findNearestColor returns for every colour an index in 0..7 of a
\* palette entry at minimum Euclidean distance, the smallest such index;
\* every palette entry maps to its own index, (50,50,50) to 0,
\* (200,200,200) to 7 and (200,100,0) to 2.
C7_NearestColor ==
  /\ nearestIndex = -1 => ENABLED CallFindNearestColor
  /\ nearestIndex # -1 =>
       /\ nearestIndex \in 0 .. 7
       /\ \A j \in 0 .. 7 :
            \/ EuclidSq(rgb, Palette(nearestIndex)) < EuclidSq(rgb, Palette(j))
            \/ /\ EuclidSq(rgb, Palette(nearestIndex)) = EuclidSq(rgb, Palette(j))
               /\ nearestIndex <= j
       /\ \A i \in 0 .. 7 : rgb = Palette(i) => nearestIndex = i
       /\ (rgb = [r |-> 50, g |-> 50, b |-> 50] => nearestIndex = 0)
       /\ (rgb = [r |-> 200, g |-> 200, b |-> 200] => nearestIndex = 7)
       /\ (rgb = [r |-> 200, g |-> 100, b |-> 0] => nearestIndex = 2)

\* Orange (200,100,0) has been matched to red.
C7_Witness == rgb = [r |-> 200, g |-> 100, b |-> 0] /\ nearestIndex = 2

(***************************************************************************)
(* Properties of the colour attribute table                                *)
(***************************************************************************)
\* generateColorAttributeDB has returned.
Generated == attrLines # << >>

IsDB(line) == line.kind = "DB"

\* The DB lines of the output, in output order.
DBLines == SelectSeq(attrLines, IsDB)

\* The number of (x, attribute) pairs of a DB line, the x position of its
\* i-th pair and its leading count value.
PairCount(line) == (Len(line.operands) - 1) \div 2
PairX(line, i) == line.operands[2 * i][2]
CountValue(line) == line.operands[1][2]

\* The x positions of the pairs of a DB line.
PairPositions(line) == { PairX(line, i) : i \in 1 .. PairCount(line) }

\* The colour code of block x (0-based) of row y (1-based) of the grid.
ColorAt(y, x) == grid.blocks[y][x + 1].colorCode

\* The positions of row y that are not white, and the first of them.
NonWhite(y) == { x \in 0 .. grid.width - 1 : ColorAt(y, x) # 7 }
FirstNonWhite(y) == CHOOSE x \in NonWhite(y) : \A x2 \in NonWhite(y) : x <= x2

\* The greatest element of a non-empty set of positions.
Greatest(S) == CHOOSE x \in S : \A x2 \in S : x2 <= x

\* Position x of row y is a colour change: it is at or after the first
\* non-white block, its block is not black, and the nearest non-black
\* block before it in the scanned range, if any, has another colour.
IsColorChange(y, x) ==
  /\ NonWhite(y) # {}
  /\ x >= FirstNonWhite(y)
  /\ ColorAt(y, x) # 0
  /\ LET before == { x2 \in FirstNonWhite(y) .. x - 1 : ColorAt(y, x2) # 0 }
     IN before = {} \/ ColorAt(y, Greatest(before)) # ColorAt(y, x)

\* The colour changes of row y.
ColorChanges(y) == { x \in 0 .. grid.width - 1 : IsColorChange(y, x) }

\* The grid is the one row BWWRRBWBWBWW and its line has count 9 and pairs
\* at 0, 1, 3, 5, 6, 7, 8, 9, 10.
ExampleAsExpected ==
  grid = MakeGrid(12, 1, << ExampleRow >>) =>
    /\ CountValue(DBLines[1]) = 9
    /\ PairCount(DBLines[1]) = 9
    /\ PairPositions(DBLines[1]) = { 0, 1, 3, 5, 6, 7, 8, 9, 10 }

\* C9 as stated: for each row there is a pair at position x exactly when x
\* is a colour change of the row, each row on its own; BWWRRBWBWBWW gives
\* count 9 and pairs at 0, 1, 3, 5, 6, 7, 8, 9, 10.
C9_PairsAreChanges ==
  Generated =>
    /\ Len(DBLines) = grid.height
    /\ \A y \in 1 .. grid.height : PairPositions(DBLines[y]) = ColorChanges(y)
    /\ ExampleAsExpected

\* C9 as amended: for each row that has a colour change there is a pair at
\* position x exactly when x is a colour change of the row, each row on its
\* own, and the count is their number; a row without any colour change has
\* the one pair (0, $F8) of the fallback line. BWWRRBWBWBWW gives count 9
\* and pairs at 0, 1, 3, 5, 6, 7, 8, 9, 10.
C9_PairsAreChangesOrFallback ==
  Generated =>
    /\ Len(DBLines) = grid.height
    /\ \A y \in 1 .. grid.height :
         IF ColorChanges(y) # {}
         THEN /\ PairPositions(DBLines[y]) = ColorChanges(y)
              /\ PairCount(DBLines[y]) = Cardinality(ColorChanges(y))
              /\ CountValue(DBLines[y]) = Cardinality(ColorChanges(y))
         ELSE DBLines[y].operands = << Dec(1), Dec(0), << "hex", << 15, 8 >> >> >>
    /\ ExampleAsExpected

\* The table of BWWRRBWBWBWW has been generated, with 9 pairs.
C9_Witness ==
  /\ Generated
  /\ grid = MakeGrid(12, 1, << ExampleRow >>)
  /\ PairCount(DBLines[1]) = 9

\* C10 as stated: in a row with a non-white block no pair has an x before
\* the row's first non-white block.
C10_NoLeadingWhite ==
  Generated =>
    \A y \in 1 .. grid.height :
      NonWhite(y) # {} =>
        \A x \in PairPositions(DBLines[y]) : x >= FirstNonWhite(y)

\* The scan of row y meets a block that is not black at or after the first
\* non-white block.
ScanSeesColor(y) ==
  /\ NonWhite(y) # {}
  /\ \E x \in FirstNonWhite(y) .. grid.width - 1 : ColorAt(y, x) # 0

\* C10 as amended: in a row with a block that is not black at or after its
\* first non-white block, no pair has an x before the row's first non-white
\* block; every other row has the one pair (0, $F8) of the fallback line.
C10_NoLeadingWhiteUnlessFallback ==
  Generated =>
    \A y \in 1 .. grid.height :
      IF ScanSeesColor(y)
      THEN \A x \in PairPositions(DBLines[y]) : x >= FirstNonWhite(y)
      ELSE DBLines[y].operands = << Dec(1), Dec(0), << "hex", << 15, 8 >> >> >>

\* The table of white, red, blue, white, white has been generated: its
\* pairs are at 1, 2 and 3.
C10_Witness ==
  /\ Generated
  /\ grid = MakeGrid(5, 1, << TrimRow >>)
  /\ PairPositions(DBLines[1]) = { 1, 2, 3 }

\* The attribute text of the i-th pair of a DB line, and the text of the
\* white attribute $F8 and of the black attribute $18.
PairAttr(line, i) == line.operands[2 * i + 1]
WhiteAttr == << "hex", << 15, 8 >> >>
BlackAttr == << "hex", << 1, 8 >> >>

\* The attribute texts of the pairs of a DB line.
PairAttrs(line) == { PairAttr(line, i) : i \in 1 .. PairCount(line) }

\* The positions x of row y from which on every block is white, and the
\* first index of the trailing run of white of a row that ends in white.
WhiteFrom(y) ==
  { x \in 0 .. grid.width - 1 : \A x2 \in x .. grid.width - 1 : ColorAt(y, x2) = 7 }
TrailingWhiteStart(y) == CHOOSE x \in WhiteFrom(y) : \A x2 \in WhiteFrom(y) : x <= x2

\* The positions of the blocks of row y before position x that are not
\* black.
NonBlackBefore(y, x) == { x2 \in 0 .. x - 1 : ColorAt(y, x2) # 0 }

\* Row y ends in a run of white and the last non-black block before that
\* run has a colour that is not white.
EndsWhiteAfterColor(y) ==
  /\ WhiteFrom(y) # {}
  /\ NonBlackBefore(y, TrailingWhiteStart(y)) # {}
  /\ ColorAt(y, Greatest(NonBlackBefore(y, TrailingWhiteStart(y)))) # 7

\* C11: the scan runs to the end of the row and a trailing run of white is
\* encoded: when a row ends in a run of white blocks and the last non-black
\* block before that run is not white, the last pair of the row's line is
\* (first index of the trailing white run, $F8).
C11_TrailingWhiteEncoded ==
  Generated =>
    \A y \in 1 .. grid.height :
      EndsWhiteAfterColor(y) =>
        LET line == DBLines[y]
        IN /\ PairCount(line) >= 1
           /\ PairX(line, PairCount(line)) = TrailingWhiteStart(y)
           /\ PairAttr(line, PairCount(line)) = WhiteAttr

\* The table of white, red, blue, white, white has been generated: its last
\* pair is (3, $F8).
C11_Witness ==
  /\ Generated
  /\ grid = MakeGrid(5, 1, << TrimRow >>)
  /\ EndsWhiteAfterColor(1)
  /\ PairX(DBLines[1], PairCount(DBLines[1])) = 3
  /\ PairAttr(DBLines[1], PairCount(DBLines[1])) = WhiteAttr

\* Blocks x1 < x2 of row y have the same colour, which is not black, and
\* are separated by black blocks only, at least one.
SameAcrossBlack(y, x1, x2) ==
  /\ x1 + 1 < x2
  /\ ColorAt(y, x1) # 0
  /\ ColorAt(y, x1) = ColorAt(y, x2)
  /\ \A x \in x1 + 1 .. x2 - 1 : ColorAt(y, x) = 0

\* C12 as stated: a black block never produces a pair and never changes
\* the tracked colour: no pair is at the x position of a black block, the
\* attribute $18 never appears, and two blocks of the same colour separated
\* only by black blocks produce a single pair, at the first of them.
C12_BlackIsSkipped ==
  Generated =>
    \A y \in 1 .. grid.height :
      /\ \A x \in PairPositions(DBLines[y]) : ColorAt(y, x) # 0
      /\ BlackAttr \notin PairAttrs(DBLines[y])
      /\ \A x1, x2 \in 0 .. grid.width - 1 :
           SameAcrossBlack(y, x1, x2) =>
             /\ x1 \in PairPositions(DBLines[y])
             /\ x2 \notin PairPositions(DBLines[y])

\* C12 as amended: in a row whose scan yields a change no pair is at the x
\* position of a black block, and a row whose scan yields none has the one
\* pair (0, $F8) of the fallback line, wherever its blocks are black; the
\* attribute $18 never appears; of two blocks of the same colour at or
\* after the row's first non-white block, separated only by black blocks,
\* the second has no pair and the first has one exactly when it is itself
\* a colour change.
C12_BlackIsSkippedInScan ==
  Generated =>
    \A y \in 1 .. grid.height :
      /\ IF ColorChanges(y) # {}
         THEN \A x \in PairPositions(DBLines[y]) : ColorAt(y, x) # 0
         ELSE DBLines[y].operands = << Dec(1), Dec(0), WhiteAttr >>
      /\ BlackAttr \notin PairAttrs(DBLines[y])
      /\ \A x1, x2 \in 0 .. grid.width - 1 :
           (/\ SameAcrossBlack(y, x1, x2)
            /\ NonWhite(y) # {}
            /\ x1 >= FirstNonWhite(y)) =>
             /\ x1 \in PairPositions(DBLines[y]) <=> IsColorChange(y, x1)
             /\ x2 \notin PairPositions(DBLines[y])

\* The table of the row red, black, red has been generated: its one pair is
\* (0, $58).
C12_Witness ==
  /\ Generated
  /\ grid = MakeGrid(3, 1, << << 2, 0, 2 >> >>)
  /\ SameAcrossBlack(1, 0, 2)
  /\ DBLines[1].operands = << Dec(1), Dec(0), << "hex", << 5, 8 >> >> >>

\* The scan of row y yields no change: the row is a run of white, possibly
\* empty, followed by black blocks only, possibly none.
NoChangeRow(y) ==
  \E k \in 0 .. grid.width :
    /\ \A x \in 0 .. k - 1 : ColorAt(y, x) = 7
    /\ \A x \in k .. grid.width - 1 : ColorAt(y, x) = 0

\* C13: every row in which the scan yields no change (entirely white,
\* entirely black, or a leading run of white followed only by black) has
\* exactly the line DB 1, 0, $F8: count 1, x = 0, the white attribute.
C13_FallbackLine ==
  Generated =>
    \A y \in 1 .. grid.height :
      NoChangeRow(y) =>
        /\ DBLines[y].kind = "DB"
        /\ DBLines[y].operands = << Dec(1), Dec(0), WhiteAttr >>

\* The table of a grid with an entirely white row and a row of white
\* followed by black has been generated, with the fallback line for both.
C13_Witness ==
  /\ Generated
  /\ grid = MakeGrid(3, 2, << << 7, 7, 7 >>, << 7, 0, 0 >> >>)
  /\ NoChangeRow(1) /\ NoChangeRow(2)
  /\ DBLines[1].operands = << Dec(1), Dec(0), WhiteAttr >>
  /\ DBLines[2].operands = << Dec(1), Dec(0), WhiteAttr >>

\* C14: the output has exactly one DB line per grid row, in row order; on
\* every such line the leading count equals the number of (x, attribute)
\* pairs that follow it, and the count is at least 1 and at most the grid
\* width.
C14_CountMatchesPairs ==
  Generated =>
    /\ Len(attrLines) = 2 + grid.height
    /\ ~IsDB(attrLines[1]) /\ ~IsDB(attrLines[2])
    /\ \A y \in 1 .. grid.height :
         LET line == attrLines[2 + y]
         IN /\ IsDB(line)
            /\ Len(line.operands) = 1 + 2 * PairCount(line)
            /\ line.operands[1][1] = "dec"
            /\ CountValue(line) = PairCount(line)
            /\ CountValue(line) >= 1
            /\ CountValue(line) <= grid.width
            /\ PairPositions(line) =
                 IF ColorChanges(y) # {} THEN ColorChanges(y) ELSE { 0 }

\* The table of a grid of two different rows has been generated: the line
\* of blue, red, blue, red has count 4 and the line of the white row count 1.
C14_Witness ==
  /\ Generated
  /\ grid = MakeGrid(4, 2, << << 1, 2, 1, 2 >>, << 7, 7, 7, 7 >> >>)
  /\ CountValue(attrLines[3]) = 4 /\ PairCount(attrLines[3]) = 4
  /\ CountValue(attrLines[4]) = 1 /\ PairCount(attrLines[4]) = 1

(***************************************************************************)
(* Properties of the pattern table                                         *)
(***************************************************************************)
\* generateSemiGraphicDB has returned.
SemiGenerated == semiLines # << >>

\* The DB lines of the pattern table, in output order.
SemiDBLines == SelectSeq(semiLines, IsDB)

\* The operands of the lines from line k on, in output order.
RECURSIVE OperandsFrom(_, _)
OperandsFrom(lines, k) ==
  IF k > Len(lines) THEN << >> ELSE lines[k].operands \o OperandsFrom(lines, k + 1)

\* An operand is a dollar sign and two hexadecimal digits; its value.
IsByteText(t) ==
  /\ t[1] = "hex" /\ Len(t[2]) = 2
  /\ t[2][1] \in 0 .. 15 /\ t[2][2] \in 0 .. 15
ByteValue(t) == 16 * t[2][1] + t[2][2]

\* The pattern of block k of the grid in row-major order (k from 1).
PatternRowMajor(k) ==
  grid.blocks[((k - 1) \div grid.width) + 1][((k - 1) % grid.width) + 1].pattern

\* C15: the DB lines of generateSemiGraphicDB hold one byte per block and
\* nothing else: their bytes in output order are the blocks' patterns in
\* row-major order, width*height bytes in all.
C15_BytesRowMajor ==
  SemiGenerated =>
    LET bytes == OperandsFrom(SemiDBLines, 1)
    IN /\ Len(bytes) = grid.width * grid.height
       /\ \A k \in 1 .. Len(bytes) :
            /\ IsByteText(bytes[k])
            /\ ByteValue(bytes[k]) = PatternRowMajor(k)

\* The pattern table of a grid of two rows of three blocks with different
\* patterns has been generated.
C15_Witness ==
  /\ SemiGenerated
  /\ grid = MakePatternGrid(3, 2, [base |-> 9, dx |-> 17, dy |-> 64])
  /\ OperandsFrom(SemiDBLines, 1) =
       << << "hex", << 0, 9 >> >>, << "hex", << 1, 10 >> >>, << "hex", << 2, 11 >> >>,
          << "hex", << 4, 9 >> >>, << "hex", << 5, 10 >> >>, << "hex", << 6, 11 >> >> >>

\* The number of DB lines of one row, and the number of bytes of the c-th of
\* them.
LinesPerRow == (grid.width + 15) \div 16
ChunkLength(c) == IF c < LinesPerRow THEN 16 ELSE grid.width - 16 * (LinesPerRow - 1)

\* C16: each row is chunked on its own into lines of 16 bytes: a row of
\* width w gives ceil(w/16) DB lines, all but the last of 16 bytes and the
\* last of w - 16*(ceil(w/16)-1) bytes, and every line holds bytes of one
\* row only; a single row of 20 blocks gives lines of 16 and 4 bytes.
C16_ChunksPerRow ==
  SemiGenerated =>
    /\ Len(SemiDBLines) = grid.height * LinesPerRow
    /\ \A y \in 1 .. grid.height : \A c \in 1 .. LinesPerRow :
         LET line == SemiDBLines[(y - 1) * LinesPerRow + c]
         IN /\ Len(line.operands) = ChunkLength(c)
            /\ \A k \in 1 .. Len(line.operands) :
                 /\ IsByteText(line.operands[k])
                 /\ ByteValue(line.operands[k]) =
                      grid.blocks[y][16 * (c - 1) + k].pattern
    /\ (grid.width = 20 /\ grid.height = 1) =>
         /\ Len(SemiDBLines) = 2
         /\ Len(SemiDBLines[1].operands) = 16
         /\ Len(SemiDBLines[2].operands) = 4

\* The pattern table of two rows of 20 blocks has been generated: four
\* lines of 16, 4, 16 and 4 bytes.
C16_Witness ==
  /\ SemiGenerated
  /\ grid.width = 20 /\ grid.height = 2
  /\ Len(SemiDBLines) = 4
  /\ Len(SemiDBLines[1].operands) = 16 /\ Len(SemiDBLines[2].operands) = 4
  /\ Len(SemiDBLines[3].operands) = 16 /\ Len(SemiDBLines[4].operands) = 4

(***************************************************************************)
(* Properties of the attribute mapping                                     *)
(***************************************************************************)
\* Bit k of the byte n, and the bitwise or of two bytes.
ByteBit(n, k) == (n \div (2 ^ k)) % 2
RECURSIVE OrFrom(_, _, _)
OrFrom(a, b, k) ==
  IF k > 7 THEN 0
  ELSE (IF ByteBit(a, k) = 1 \/ ByteBit(b, k) = 1 THEN 2 ^ k ELSE 0) + OrFrom(a, b, k + 1)
ByteOr(a, b) == OrFrom(a, b, 0)

\* The attribute bytes of the colour indices 0 .. 7.
AttributeTable == << 24, 56, 88, 120, 152, 184, 216, 248 >>

\* C17: getAttributeColorCode maps every colour index i in 0..7 to
\* (i << 5) | 0x18, that is 0x18, 0x38, 0x58, 0x78, 0x98, 0xB8, 0xD8, 0xF8,
\* and every index outside 0..7, such as 8 and -1, to 0xF8.
C17_AttributeCode ==
  attrCode # -1 =>
    IF codeIndex \in 0 .. 7
    THEN /\ attrCode = ByteOr(codeIndex * 32, 24)
         /\ attrCode = AttributeTable[codeIndex + 1]
    ELSE attrCode = 248

\* The index -1 has been mapped to 0xF8.
C17_Witness == codeIndex = -1 /\ attrCode = 248

(***************************************************************************)
(* Properties of the listing                                               *)
(***************************************************************************)
\* exportProject has returned.
Exported == exportResult # NoResult

\* The image has pixel data: an element whose getImageData returns a buffer.
HasPixelData(image) == image.imageElement.kind = "canvas"

\* The three digits of the number of the i-th image of the project.
NumberOfImage(i) == << "0", "0", DigitChars[i + 1] >>

\* The placeholder comment of the i-th image (i from 1), which has no pixel
\* data or makes the conversion throw.
PlaceholderOf(image, i) ==
  IF image.imageElement.kind = "none"
  THEN Note("Image element not loaded for", << image.filename >>)
  ELSE Note("Error converting image",
            << i - 1, IF image.imageElement.kind = "broken"
                      THEN image.imageElement.message ELSE "browser unsupported" >>)

\* The placeholders of the images from the i-th on, in list order.
RECURSIVE PlaceholdersFrom(_, _)
PlaceholdersFrom(images, i) ==
  IF i > Len(images) THEN << >>
  ELSE (IF HasPixelData(images[i]) THEN << >> ELSE << PlaceholderOf(images[i], i) >>)
       \o PlaceholdersFrom(images, i + 1)

\* The labels and the DB lines of the tables of the images with pixel data
\* from the i-th on, in list order.
RECURSIVE TableLabelsFrom(_, _)
TableLabelsFrom(images, i) ==
  IF i > Len(images) THEN << >>
  ELSE (IF HasPixelData(images[i])
        THEN << LabelLine(<< "Image_" >> \o NumberOfImage(i)),
                LabelLine(<< "Attr_" >> \o NumberOfImage(i)) >>
        ELSE << >>)
       \o TableLabelsFrom(images, i + 1)
RECURSIVE TableDataFrom(_, _)
TableDataFrom(images, i) ==
  IF i > Len(images) THEN << >>
  ELSE (IF HasPixelData(images[i])
        THEN LET semi == convertImageDataToSemiGraphic(images[i].imageElement.imageData)
             IN SelectSeq(generateSemiGraphicDB(semi, "") \o generateColorAttributeDB(semi, ""),
                          IsDB)
        ELSE << >>)
       \o TableDataFrom(images, i + 1)

IsPlaceholder(line) ==
  /\ line.kind = "note"
  /\ line.text \in { "Image element not loaded for", "Error converting image" }
IsTableLabel(line) == line.kind = "label" /\ line.label[1] \in { "Image_", "Attr_" }
IsTerminator(line) == line.kind = "dw" /\ line.operand = << "0" >>

\* The positions of the line t in the listing.
PositionsOf(t) == { k \in 1 .. Len(asmCode) : asmCode[k] = t }

\* C18: generateZ80Code absorbs the failure of an image: every image without
\* pixel data or whose conversion throws gets its placeholder comment, the
\* tables of all other images are emitted in list order, the animation
\* section and the end marker follow, and no image makes the export fail.
C18_ImageFailuresAbsorbed ==
  Exported =>
    /\ SelectSeq(asmCode, IsPlaceholder) = PlaceholdersFrom(projectData.images, 1)
    /\ SelectSeq(asmCode, IsTableLabel) = TableLabelsFrom(projectData.images, 1)
    /\ SelectSeq(asmCode, IsDB) = TableDataFrom(projectData.images, 1)
    /\ Cardinality(PositionsOf(Text("; === Animation Sequences ==="))) = 1
    /\ \A k \in 1 .. Len(asmCode) :
         IsPlaceholder(asmCode[k]) \/ IsTableLabel(asmCode[k]) \/ IsDB(asmCode[k]) =>
           \A m \in PositionsOf(Text("; === Animation Sequences ===")) : k < m
    /\ Cardinality({ k \in 1 .. Len(asmCode) : IsTerminator(asmCode[k]) }) =
         Len(projectData.sequences)
    /\ asmCode[Len(asmCode)] = Text("; === End of Generated Code ===")
    /\ ~exportResult.success =>
         exportResult.error \in { e.message : e \in WriteErrors \cup StatErrors }

\* A project whose first image makes the conversion throw and whose second
\* image has pixel data has been exported: the listing has the placeholder
\* of the first and the tables of the second.
C18_Witness ==
  /\ Exported
  /\ exportResult.success
  /\ Len(projectData.images) = 2
  /\ projectData.images[1].imageElement = BrokenElement("decode failed")
  /\ projectData.images[2].imageElement = CanvasElement(MockImageData)
  /\ Len(projectData.sequences) = 1
  /\ SelectSeq(asmCode, IsPlaceholder) =
       << Note("Error converting image", << 0, "decode failed" >>) >>
  /\ SelectSeq(asmCode, IsTableLabel) =
       << LabelLine(<< "Image_", "0", "0", "2" >>), LabelLine(<< "Attr_", "0", "0", "2" >>) >>

\* The calls of fs.writeFileSync made.
WriteCalls == SelectSeq(fsLog, LAMBDA c : c.call = "writeFileSync")

\* C19: when the write of the output file fails exportProject returns a
\* result with success = false and error = the message of the error thrown,
\* without outputPath, linesGenerated or sizeBytes, and the write has been
\* attempted exactly once.
C19_WriteFailure ==
  (Exported /\ \E k \in 1 .. Len(fsLog) : fsLog[k].call = "writeFileSync" /\ fsLog[k].thrown) =>
    /\ DOMAIN exportResult = { "success", "error" }
    /\ exportResult.success = FALSE
    /\ exportResult.error = WriteCalls[1].error.message
    /\ Len(WriteCalls) = 1
    /\ Len(fsLog) = 1

\* An export whose write failed with 'Permission denied' has returned.
C19_Witness ==
  /\ Exported
  /\ fsLog = << Threw("writeFileSync", Error("Permission denied")) >>
  /\ exportResult = [success |-> FALSE, error |-> "Permission denied"]

\* The label under which the image with the given id is emitted.
LabelOfId(id) ==
  << "Image_" >> \o NumberOfImage(CHOOSE i \in 1 .. 9 : ImageIdOf(i) = id)

\* The entries of the frames of a sequence from the j-th on, and of the
\* sequences of a project from the i-th on, each closed by 'dw 0'.
RECURSIVE FrameEntriesFrom(_, _)
FrameEntriesFrom(frames, j) ==
  IF j > Len(frames) THEN << >>
  ELSE << DW(LabelOfId(frames[j].imageId)),
          DBytes(<< frames[j].y, frames[j].x >>),
          DBytes(<< frames[j].waitTime >>) >>
       \o FrameEntriesFrom(frames, j + 1)
RECURSIVE SequenceEntriesFrom(_, _)
SequenceEntriesFrom(sequences, i) ==
  IF i > Len(sequences) THEN << >>
  ELSE FrameEntriesFrom(sequences[i].frames, 1) \o << DW(<< "0" >>) >>
       \o SequenceEntriesFrom(sequences, i + 1)

IsEntry(line) == line.kind \in { "dw", "db" }

\* C20: for every sequence the listing has, for each frame in frame order,
\* 'dw Image_NNN' of the frame's image, 'db y, x' and 'db waitTime', and
\* after the last frame one 'dw 0'; a sequence without frames has the
\* terminator alone.
C20_FrameEntries ==
  Exported =>
    SelectSeq(asmCode, IsEntry) = SequenceEntriesFrom(projectData.sequences, 1)

\* A project with a sequence of two frames and a sequence without frames
\* has been exported.
C20_Witness ==
  /\ Exported
  /\ Len(projectData.sequences) = 2
  /\ Len(projectData.sequences[1].frames) = 2
  /\ projectData.sequences[1].frames[1] # projectData.sequences[1].frames[2]
  /\ Len(projectData.sequences[2].frames) = 0
  /\ Len(SelectSeq(asmCode, IsEntry)) = 8
  /\ asmCode[Len(asmCode) - 7] = DW(<< "0" >>)
  /\ asmCode[Len(asmCode) - 2] = DW(<< "0" >>)

\* The size of the grid of the i-th image of the project, from the size of
\* its pixel buffer.
GridWidthOf(i) == CeilOf(projectData.images[i].imageElement.imageData.width, 2)
GridHeightOf(i) == CeilOf(projectData.images[i].imageElement.imageData.height, 4)

\* The lines k .. k + n - 1 of the listing exist and are DB lines whose
\* first operand has the given form ("hex" for bytes, "dec" for a count).
DBLinesAt(k, n, form) ==
  /\ k + n - 1 <= Len(asmCode)
  /\ \A m \in k .. k + n - 1 : IsDB(asmCode[m]) /\ asmCode[m].operands[1][1] = form

\* At position p of the listing stands the label Image_NNN of the i-th
\* image, followed by its pattern table, the label Attr_NNN with its
\* attribute table, and the size summary.
TablesAt(p, i) ==
  LET w == GridWidthOf(i)
      h == GridHeightOf(i)
      n == h * CeilOf(w, 16)
  IN /\ asmCode[p] = LabelLine(<< "Image_" >> \o NumberOfImage(i))
     /\ DBLinesAt(p + 1, n, "hex")
     /\ Len(OperandsFrom(SubSeq(asmCode, p + 1, p + n), 1)) = w * h
     /\ asmCode[p + n + 1] = Text("")
     /\ asmCode[p + n + 2] = [kind |-> "comment", width |-> w, height |-> h]
     /\ asmCode[p + n + 3] = LabelLine(<< "Attr_" >> \o NumberOfImage(i))
     /\ DBLinesAt(p + n + 4, h, "dec")
     /\ asmCode[p + n + h + 4] = Text("")
     /\ asmCode[p + n + h + 5] = Note("Image Size", << NumberOfImage(i), w, h >>)
     /\ asmCode[p + n + h + 6] = Note("Data Size", << w * h, w * h >>)

\* C21: for every image with pixel data the listing has its pattern table
\* under the label Image_NNN, then its attribute table under the label
\* Attr_NNN, NNN being the image's number padded with zeros to 3 digits,
\* then the size summary comment.
C21_TablesUnderLabels ==
  Exported =>
    \A i \in 1 .. Len(projectData.images) :
      HasPixelData(projectData.images[i]) =>
        \E p \in 1 .. Len(asmCode) : TablesAt(p, i)

\* A project whose second image, with the id '2', has the 3x2 pixel buffer
\* has been exported: its tables stand under Image_002 and Attr_002.
C21_Witness ==
  /\ Exported
  /\ Len(projectData.images) = 2
  /\ projectData.images[2].id = << "2" >>
  /\ projectData.images[2].imageElement = CanvasElement(CroppedImageData)
  /\ \E p \in 1 .. Len(asmCode) :
       /\ TablesAt(p, 2)
       /\ asmCode[p] = LabelLine(<< "Image_", "0", "0", "2" >>)
       /\ asmCode[p + 4] = LabelLine(<< "Attr_", "0", "0", "2" >>)

\* The number of lines of the listing equal to t.
Occurrences(t) == Cardinality(PositionsOf(t))

\* No call of fs has thrown.
FsWorked == \A k \in 1 .. Len(fsLog) : ~fsLog[k].thrown

\* The header, both section markers and the end marker are in the listing,
\* in this order.
FrameOfListing ==
  /\ asmCode[1] = Text(";")
  /\ asmCode[2] = Text("; Z80 Dancing Editor Generated Assembly Code")
  /\ asmCode[3] = Note("Project", << projectData.name >>)
  /\ asmCode[6] = Note("Images", << Len(projectData.images) >>)
  /\ asmCode[7] = Note("Sequences", << Len(projectData.sequences) >>)
  /\ asmCode[10] = Text("; === Image Data Section ===")
  /\ Occurrences(Text("; === Image Data Section ===")) = 1
  /\ Occurrences(Text("; === Animation Sequences ===")) = 1
  /\ \A k \in PositionsOf(Text("; === Animation Sequences ===")) : k > 10
  /\ asmCode[Len(asmCode)] = Text("; === End of Generated Code ===")
  /\ Occurrences(Text("; === End of Generated Code ===")) = 1

\* C22: with an empty image list the listing has the comment 'No images in
\* project', with an empty sequence list the comment 'No sequences in
\* project'; in both cases the header, both section markers and the end
\* marker are there, and exportProject succeeds when fs does.
C22_EmptyProject ==
  Exported =>
    /\ Len(projectData.images) = 0 =>
         /\ Occurrences(Text("; No images in project")) = 1
         /\ FrameOfListing
    /\ Len(projectData.sequences) = 0 =>
         /\ Occurrences(Text("; No sequences in project")) = 1
         /\ FrameOfListing
    /\ ((Len(projectData.images) = 0 \/ Len(projectData.sequences) = 0) /\ FsWorked) =>
         /\ exportResult.success
         /\ exportResult.linesGenerated = Len(asmCode)

\* The project without images and without sequences has been exported with
\* success: its listing has 22 lines.
C22_Witness ==
  /\ Exported
  /\ Len(projectData.images) = 0 /\ Len(projectData.sequences) = 0
  /\ exportResult.success
  /\ Len(asmCode) = 22
  /\ asmCode[17] = Text("; No images in project")
  /\ asmCode[20] = Text("; No sequences in project")

(***************************************************************************)
(* Properties of the conversion of image files                             *)
(***************************************************************************)
\* The path holds the file of an image that can be read and decoded.
Readable(path) == path \in DOMAIN files /\ files[path].kind = "image"

\* The value is a grid of the size of the bitmap of the path: ceil(W/2)
\* columns and ceil(H/4) rows of blocks.
IsGridOf(value, path) ==
  /\ DOMAIN value = { "width", "height", "blocks" }
  /\ value.width = CeilOf(files[path].bitmap.width, 2)
  /\ value.height = CeilOf(files[path].bitmap.height, 4)
  /\ Len(value.blocks) = value.height
  /\ \A y \in 1 .. value.height : Len(value.blocks[y]) = value.width

\* The images of the project with the given id.
ImagesWithId(imageId) ==
  { i \in 1 .. Len(projectData.images) : projectData.images[i].id = imageId }

\* C23: convertImageFile and convertImageFromProject return null when the
\* image id is not in the project or the file cannot be read or decoded,
\* and a grid otherwise; no error leaves them.
C23_NullOnFailure ==
  /\ fileCall # NotCalled =>
       IF Readable(fileCall.argument)
       THEN IsGridOf(fileCall.result, fileCall.argument)
       ELSE fileCall.result = [isNull |-> TRUE]
  /\ projectCall # NotCalled =>
       IF /\ ImagesWithId(projectCall.argument) # {}
          /\ \A i \in ImagesWithId(projectCall.argument) :
               Readable(projectData.images[i].filename)
       THEN \A i \in ImagesWithId(projectCall.argument) :
              IsGridOf(projectCall.result, projectData.images[i].filename)
       ELSE projectCall.result = [isNull |-> TRUE]

\* convertImageFile has returned null for a file that is no image, and
\* convertImageFromProject null for an id the project does not have.
C23_Witness ==
  /\ fileCall # NotCalled /\ projectCall # NotCalled
  /\ fileCall.argument \in DOMAIN files
  /\ files[fileCall.argument] = Corrupt
  /\ fileCall.result = [isNull |-> TRUE]
  /\ Len(projectData.images) = 1
  /\ projectCall.argument = ImageIdOf(2)
  /\ projectCall.result = [isNull |-> TRUE]

(***************************************************************************)
(* Properties of the blocks of the converter                               *)
(***************************************************************************)
\* The grids the two paths of the converter have returned.
ProducedGrids == { g \in { semiData, jimpData } : g # NoData }

\* The non-black colours with the highest vote count of block (bx, by),
\* none when no set pixel votes for a non-black colour.
Leaders(img, bx, by) ==
  LET votes == Votes(img, bx, by)
  IN { c \in 1 .. 7 : votes[c + 1] > 0 /\ \A k \in 1 .. 7 : votes[k + 1] <= votes[c + 1] }

\* The smallest element of a non-empty set of integers.
Smallest(S) == CHOOSE c \in S : \A k \in S : c <= k

\* C24: when several non-black colours tie for the highest vote count of a
\* block, the block's colour code is the smallest colour index among them,
\* whatever the order in which the pixels voted.
C24_TieSmallestIndex ==
  \A g \in ProducedGrids : \A bl \in BlocksOf(g) :
    LET leaders == Leaders(imageData, bl[1], bl[2])
    IN Cardinality(leaders) >= 2 =>
         BlockAt(g, bl[1], bl[2]).colorCode = Smallest(leaders)

\* Both paths have converted an image of one column and two rows whose
\* upper pixel votes for a larger colour index than its lower pixel, both
\* non-black: the block has the colour of the lower pixel.
C24_Witness ==
  /\ Converted /\ jimpData # NoData
  /\ imageData.width = 1 /\ imageData.height = 2
  /\ LET upper == DotVote(imageData, 0, 0, << 0, 0 >>)
         lower == DotVote(imageData, 0, 0, << 0, 1 >>)
     IN /\ lower > 0 /\ upper > lower
        /\ BlockAt(semiData, 0, 0).colorCode = lower
        /\ BlockAt(jimpData, 0, 0).colorCode = lower

\* C25: every block of every grid the converter produces has a pattern in
\* 0..255 and a colour code in 0..7, and every bit of the pattern whose dot
\* has no set pixel (no source pixel, or one with alpha <= 127) is 0.
C25_BlockRanges ==
  \A g \in ProducedGrids : \A bl \in BlocksOf(g) :
    LET block == BlockAt(g, bl[1], bl[2])
    IN /\ block.pattern \in 0 .. 255
       /\ block.colorCode \in 0 .. 7
       /\ \A d \in Dots :
            ~Opaque(imageData, bl[1], bl[2], d) => BitOf(block.pattern, DotBit(d)) = 0

\* Both paths have converted an image with a block that has a dot with a
\* transparent pixel, a dot without a source pixel and a dot whose bit is
\* set.
C25_Witness ==
  /\ Converted /\ jimpData # NoData
  /\ \E bl \in BlocksOf(semiData) :
       /\ \E d \in Dots : Present(imageData, bl[1], bl[2], d)
                          /\ ~Opaque(imageData, bl[1], bl[2], d)
       /\ \E d \in Dots : ~Present(imageData, bl[1], bl[2], d)
       /\ \E d \in Dots : /\ BitOf(BlockAt(semiData, bl[1], bl[2]).pattern, DotBit(d)) = 1
                          /\ BitOf(BlockAt(jimpData, bl[1], bl[2]).pattern, DotBit(d)) = 1

(***************************************************************************)
(* Properties of the order of the pattern table                            *)
(***************************************************************************)
\* The positions of the lines of a kind in the pattern table.
SemiPositions(kind) == { k \in 1 .. Len(semiLines) : semiLines[k].kind = kind }

\* C26: in the output of generateSemiGraphicDB the label line appears
\* exactly once and comes first, the comment line with the grid dimensions
\* comes after the label, and every DB line comes after the comment.
C26_LabelFirst ==
  SemiGenerated =>
    /\ SemiPositions("label") = { 1 }
    /\ \A c \in SemiPositions("comment") : c > 1
    /\ \A c \in SemiPositions("comment") : \A d \in SemiPositions("DB") : d > c
    /\ SemiPositions("comment") # {}

(***************************************************************************)
(* Properties of the pairs of the attribute table                          *)
(***************************************************************************)
\* The pairs of a DB line whose position is at most x.
PairsUpTo(line, x) == { i \in 1 .. PairCount(line) : PairX(line, i) <= x }

\* The attribute byte a line that starts white shows at position x once the
\* pairs of the DB line are applied: that of the last pair at or before x,
\* white before the first pair.
Decoded(line, x) ==
  IF PairsUpTo(line, x) = {}
  THEN 248
  ELSE ByteValue(PairAttr(line, Greatest(PairsUpTo(line, x))))

\* C27: the row encoding is lossless for non-black blocks: decoding the
\* pairs of a row on a line that starts white gives, at every position
\* whose block is not black, the attribute byte of that block's colour.
C27_DecodesNonBlack ==
  Generated =>
    \A y \in 1 .. grid.height : \A x \in 0 .. grid.width - 1 :
      ColorAt(y, x) # 0 =>
        Decoded(DBLines[y], x) = AttributeTable[ColorAt(y, x) + 1]

\* The table of the row BWWRRBWBWBWW has been generated and decodes to
\* blue at 0, white at 1 and 2, red at 3 and 4 and white at 11.
C27_Witness ==
  /\ Generated
  /\ grid = MakeGrid(12, 1, << ExampleRow >>)
  /\ Decoded(DBLines[1], 0) = 56
  /\ Decoded(DBLines[1], 1) = 248 /\ Decoded(DBLines[1], 2) = 248
  /\ Decoded(DBLines[1], 3) = 88 /\ Decoded(DBLines[1], 4) = 88
  /\ Decoded(DBLines[1], 11) = 248

\* C28: in every row line the x positions of the pairs are strictly
\* increasing and lie in 0..width-1, two consecutive pairs never carry the
\* same attribute byte, and a row whose scan yields at least one change
\* has no white pair at x = 0.
C28_PairsOrdered ==
  Generated =>
    \A y \in 1 .. grid.height :
      LET line == DBLines[y]
      IN /\ \A i \in 1 .. PairCount(line) : PairX(line, i) \in 0 .. grid.width - 1
         /\ \A i \in 1 .. PairCount(line) - 1 :
              /\ PairX(line, i) < PairX(line, i + 1)
              /\ PairAttr(line, i) # PairAttr(line, i + 1)
         /\ ColorChanges(y) # {} =>
              \A i \in 1 .. PairCount(line) :
                ~(PairX(line, i) = 0 /\ PairAttr(line, i) = WhiteAttr)

\* The table of the row white, red, blue, white, white has been generated
\* with the pairs (1, red), (2, blue), (3, white).
C28_Witness ==
  /\ Generated
  /\ grid = MakeGrid(5, 1, << TrimRow >>)
  /\ PairCount(DBLines[1]) = 3
  /\ PairX(DBLines[1], 1) = 1 /\ ByteValue(PairAttr(DBLines[1], 1)) = 88
  /\ PairX(DBLines[1], 2) = 2 /\ ByteValue(PairAttr(DBLines[1], 2)) = 56
  /\ PairX(DBLines[1], 3) = 3 /\ PairAttr(DBLines[1], 3) = WhiteAttr

(***************************************************************************)
(* Properties of the labels of the listing                                 *)
(***************************************************************************)
\* The positions of the label lines of the listing, and of the 'dw' lines
\* of its frames.
LabelPositions == { k \in 1 .. Len(asmCode) : asmCode[k].kind = "label" }
FrameReferences ==
  { k \in 1 .. Len(asmCode) : asmCode[k].kind = "dw" /\ ~IsTerminator(asmCode[k]) }

\* C29: every label Image_NNN that a 'dw' line of a frame refers to is
\* defined as a label in the image data section of the same listing, that
\* is before the marker of the animation section.
C29_ReferencesDefined ==
  Exported =>
    \A k \in FrameReferences :
      \E m \in LabelPositions :
        /\ asmCode[m].label = asmCode[k].operand
        /\ \A a \in PositionsOf(Text("; === Animation Sequences ===")) : m < a

\* C30: every label of the listing (Character, Image_NNN, Attr_NNN,
\* Sequence) is defined at most once.
C30_LabelsUnique ==
  Exported =>
    \A k \in LabelPositions : \A m \in LabelPositions :
      asmCode[k].label = asmCode[m].label => k = m

====
